---- MODULE Spec2Model ----
(***************************************************************************)
(* Model of the position relay system (createRelaySystem): chunk topic     *)
(* subscriptions that follow the player, the pose publisher, the receiver  *)
(* of remote poses and the sweep of unresponsive players.                  *)
(*                                                                         *)
(* Real numbers (positions, quaternion components) are represented as      *)
(* integer multiples of 1/Unit, Unit = 10 * 10^PRECISION, so that one      *)
(* digit below the wire precision exists and toFixedPoint really floors.   *)
(* Times are milliseconds.  JavaScript runs one handler at a time, so each *)
(* handler (with the microtasks it queues) is one action.                  *)
(***************************************************************************)
EXTENDS Integers, Sequences, FiniteSets, TLC

(* ------------------------- program constants --------------------------- *)
PRECISION == 2
UNRESPONSIVE_PLAYER_CLEANUP == 2000
TIMEOUT == 1000
RELAY_CHUNK_SIZE == 64
HALF_LENGTH == RELAY_CHUNK_SIZE

(* ------------------------------ bounds --------------------------------- *)
\* the clock advances in steps of Tick ms, up to MaxTime ms
Tick == 1000
MaxTime == 3000

RECURSIVE Pow10(_)
Pow10(k) == IF k = 0 THEN 1 ELSE 10 * Pow10(k - 1)

\* reals are integers counting 1/Unit
Unit == 10 * Pow10(PRECISION)

(* ------------------------------ inputs --------------------------------- *)
\* network.connectedAddress and the senders seen on the relay
LocalAddress == "0xme"
Addresses == {LocalAddress, "0xa"}

\* positions the local player entity can be at (x, y, z)
NoaPositions == { <<0, 0, 0>>, <<70005, 0, 0>> }

\* the camera quaternion of pitch = heading = 0
CameraQuaternion == <<0, 0, 0, Unit>>

\* positions remote players report
RemotePositions == { <<-10005, 1000, 0>>, <<70005, 0, 0>> }

(* ------------------------------- codec --------------------------------- *)
toFixedPoint(n) == (n * Pow10(PRECISION)) \div Unit

fromFixedPoint(n) == (n * Unit) \div Pow10(PRECISION)

\* the four bytes of one Int32Array element (two's complement, least
\* significant byte first)
Int32ToBytes(n) ==
  << n % 256, (n \div 256) % 256, (n \div 65536) % 256, (n \div 16777216) % 256 >>

RECURSIVE Int32ArrayToUint8Array(_)
Int32ArrayToUint8Array(input) ==
  IF input = << >> THEN << >>
  ELSE Int32ToBytes(Head(input)) \o Int32ArrayToUint8Array(Tail(input))

\* the Int32Array element stored at the 1-based offset i
ReadInt32(bytes, i) ==
  LET high == IF bytes[i + 3] >= 128 THEN bytes[i + 3] - 256 ELSE bytes[i + 3]
  IN  high * 16777216 + bytes[i + 2] * 65536 + bytes[i + 1] * 256 + bytes[i]

Uint8ArrayToInt32Array(input) ==
  [k \in 1..(Len(input) \div 4) |-> ReadInt32(input, 4 * (k - 1) + 1)]

\* copies byteLengths[k] bytes into a fresh zero-filled array each; a read
\* past the end of data yields undefined, stored as 0; surplus bytes are left
splitUint8Arrays(data, byteLengths) ==
  LET start(k) == IF k = 1 THEN 0 ELSE byteLengths[1]  \* two parts are split
  IN  [k \in 1..Len(byteLengths) |->
         [j \in 1..byteLengths[k] |->
            IF start(k) + j <= Len(data) THEN data[start(k) + j] ELSE 0]]

encodeMessage(position, direction) ==
  LET scalars == position \o direction
      transformedData == [k \in 1..Len(scalars) |-> toFixedPoint(scalars[k])]
  IN  Int32ArrayToUint8Array(transformedData)

decodeMessage(data) ==
  LET parts == splitUint8Arrays(data, <<12, 16>>)
      positionInts  == Uint8ArrayToInt32Array(parts[1])
      directionInts == Uint8ArrayToInt32Array(parts[2])
  IN  [position  |-> [k \in 1..Len(positionInts) |-> fromFixedPoint(positionInts[k])],
       direction |-> [k \in 1..Len(directionInts) |-> fromFixedPoint(directionInts[k])]]

(* ---------------------------- chunk index ------------------------------ *)
pixelToChunkCoord(pixelCoord, chunkSize) ==
  [x |-> pixelCoord.x \div (chunkSize * Unit),
   y |-> pixelCoord.y \div (chunkSize * Unit)]

createChunkTopicMessage(chunk) ==
  "c(" \o ToString(chunk.x) \o "," \o ToString(chunk.y) \o ")"

getChunksInArea(area, chunkSize) ==
  LET topLeft     == pixelToChunkCoord([x |-> area.x, y |-> area.y], chunkSize)
      bottomRight == pixelToChunkCoord([x |-> area.x + area.width,
                                        y |-> area.y + area.height], chunkSize)
  IN  { [x |-> cx, y |-> cy] : cx \in topLeft.x..bottomRight.x,
                               cy \in topLeft.y..bottomRight.y }

\* width and height of HALF_LENGTH instead of HALF_LENGTH * 2
currentAreaHalfSize(c) ==
  [x |-> c[1] - HALF_LENGTH * Unit, y |-> c[3] - HALF_LENGTH * Unit,
   width |-> HALF_LENGTH * Unit, height |-> HALF_LENGTH * Unit]

\* the corner at the position instead of HALF_LENGTH before it
currentAreaUncentered(c) ==
  [x |-> c[1], y |-> c[3],
   width |-> HALF_LENGTH * 2 * Unit, height |-> HALF_LENGTH * 2 * Unit]

\* currentArea$: the square around a sampled position c = (x, y, z)
currentArea(c) ==
  [x |-> c[1] - HALF_LENGTH * Unit, y |-> c[3] - HALF_LENGTH * Unit,
   width |-> HALF_LENGTH * 2 * Unit, height |-> HALF_LENGTH * 2 * Unit]

\* currentChunk$: the chunk of a sampled position
currentChunk(vc) == pixelToChunkCoord([x |-> vc[1], y |-> vc[3]], RELAY_CHUNK_SIZE)

(* --------------------------- component store --------------------------- *)
\* a component is a function from the entities that have it to their value
setComponent(component, entity, value) ==
  [e \in DOMAIN component \cup {entity} |->
     IF e = entity THEN value ELSE component[e]]

removeComponent(component, entity) ==
  [e \in DOMAIN component \ {entity} |-> component[e]]

NoEntities == [e \in {} |-> 0]

(* ------------------------------- state --------------------------------- *)
VARIABLES
  relay,                       \* TRUE iff network.relay is defined
  pc,                          \* where createRelaySystem / the subsystem is
  warned,                      \* number of console.warn calls
  noaPosition,                 \* position of noa.playerEntity
  camera,                      \* quaternion of noa.camera.pitch and heading
  currentChunkComputed,        \* << >> until the first value, then << chunk >>
  visibleChunks,               \* keys of visibleChunks.current (all map to true)
  subscribed,                  \* topics subscribed on the relay service
  issued,                      \* kinds of relay calls made so far
  PlayerPosition,
  PlayerDirection,
  PlayerRelayerChunkPosition,
  PlayerLastMessage,
  now,                         \* Date.now()
  sweepDue,                    \* when the cleanup timer fires next
  lastEvent                    \* the handler that ran last, with its input

components == << PlayerPosition, PlayerDirection, PlayerRelayerChunkPosition, PlayerLastMessage >>

vars == << relay, pc, warned, noaPosition, camera, currentChunkComputed, visibleChunks,
           subscribed, issued, PlayerPosition, PlayerDirection,
           PlayerRelayerChunkPosition, PlayerLastMessage, now, sweepDue, lastEvent >>

\* type: the handler; address, data: the relay event or the relay.push made
\* (address holds the topic of a push, or the topic whose relay.unsubscribe
\* threw); removed: the chunks that left the visible set; evicted: the
\* entities whose components were removed
Event(type, address, data, removed, evicted) ==
  [type |-> type, address |-> address, data |-> data, removed |-> removed,
   evicted |-> evicted]

\* payloads arriving on relay.event$: poses encoded by peers, and the same
\* bytes cut short or with a byte appended
WellFormed == { encodeMessage(p, CameraQuaternion) : p \in RemotePositions }

Payloads ==
  WellFormed
  \cup { << >> }
  \cup { d \o <<7>> : d \in { encodeMessage(<<-10005, 1000, 0>>, CameraQuaternion) } }

Init ==
  /\ relay \in BOOLEAN
  /\ pc = "init"
  /\ warned = 0
  /\ noaPosition \in NoaPositions
  /\ camera = CameraQuaternion
  /\ currentChunkComputed = << >>
  /\ visibleChunks = {}
  /\ subscribed = {}
  /\ issued = {}
  /\ PlayerPosition = NoEntities
  /\ PlayerDirection = NoEntities
  /\ PlayerRelayerChunkPosition = NoEntities
  /\ PlayerLastMessage = NoEntities
  /\ now = 0
  /\ sweepDue = 0
  /\ lastEvent = Event("none", "", << >>, {}, {})

(* ---------------------------- environment ------------------------------ *)
\* the engine moves the local player
Move(p) ==
  /\ pc # "init"
  /\ p # noaPosition
  /\ noaPosition' = p
  /\ lastEvent' = Event("move", "", << >>, {}, {})
  /\ UNCHANGED << relay, camera, pc, warned, currentChunkComputed, visibleChunks, subscribed,
                  issued, components, now, sweepDue >>

\* time passes; a due cleanup timer runs before more time passes
Advance ==
  /\ pc \in {"running", "inert", "disposed"}
  /\ now + Tick <= MaxTime
  /\ ~(pc = "running" /\ now >= sweepDue)
  /\ now' = now + Tick
  /\ lastEvent' = Event("advance", "", << >>, {}, {})
  /\ UNCHANGED << relay, camera, pc, warned, noaPosition, currentChunkComputed, visibleChunks,
                  subscribed, issued, components, sweepDue >>

(* ------------------------- createRelaySystem --------------------------- *)
relayMissingContinue(present) ==
  [warn |-> IF ~present THEN 1 ELSE 0, pc |-> "awaitChunk"]

\* if (!relay) { console.warn(...); return; }
relayMissing(present) ==
  IF ~present THEN [warn |-> 1, pc |-> "inert"] ELSE [warn |-> 0, pc |-> "awaitChunk"]

\* Up to the await: without a relay warn and return; else the three position
\* timers of currentChunkComputed, createChunks and initialArea are started,
\* in this order
createRelaySystem ==
  /\ pc = "init"
  /\ warned' = warned + relayMissing(relay).warn
  /\ pc' = relayMissing(relay).pc
  /\ lastEvent' = Event("create", "", << >>, {}, {})
  /\ UNCHANGED << relay, camera, noaPosition, currentChunkComputed, visibleChunks, subscribed,
                  issued, components, now, sweepDue >>

\* a tick of the timer under currentChunkComputed
ChunkTick ==
  /\ pc \in {"awaitChunk", "running", "disposed"}
  /\ currentChunkComputed' = << currentChunk(noaPosition) >>
  /\ pc' = IF pc = "awaitChunk" THEN "awaitChunks" ELSE pc
  /\ lastEvent' = Event("chunkTick", "", << >>, {}, {})
  /\ UNCHANGED << relay, camera, warned, noaPosition, visibleChunks, subscribed, issued,
                  components, now, sweepDue >>

removePlayerComponentPartial(w, entity) ==
  [w EXCEPT !.PlayerPosition = removeComponent(@, entity),
            !.PlayerDirection = removeComponent(@, entity),
            !.PlayerRelayerChunkPosition = removeComponent(@, entity)]

removePlayerComponent(w, entity) ==
  [w EXCEPT !.PlayerPosition = removeComponent(@, entity),
            !.PlayerDirection = removeComponent(@, entity),
            !.PlayerRelayerChunkPosition = removeComponent(@, entity),
            !.PlayerLastMessage = removeComponent(@, entity)]

RECURSIVE removeAll(_, _)
removeAll(w, entities) ==
  IF entities = {} THEN w
  ELSE LET r == CHOOSE e \in entities : TRUE
       IN  removeAll(removePlayerComponent(w, r), entities \ {r})

World ==
  [PlayerPosition |-> PlayerPosition, PlayerDirection |-> PlayerDirection,
   PlayerRelayerChunkPosition |-> PlayerRelayerChunkPosition,
   PlayerLastMessage |-> PlayerLastMessage]

removedPlayersAnyChunk(w, chunk) ==
  DOMAIN w.PlayerDirection \cap DOMAIN w.PlayerPosition

\* runQuery([Has(PlayerDirection), Has(PlayerPosition),
\*           HasValue(PlayerRelayerChunkPosition, chunk)])
removedPlayers(w, chunk) ==
  { e \in DOMAIN w.PlayerDirection \cap DOMAIN w.PlayerPosition
            \cap DOMAIN w.PlayerRelayerChunkPosition :
      w.PlayerRelayerChunkPosition[e] = chunk }

\* the subscriber of removedChunks$ for one chunk
removedChunksSubcription(w, chunk) ==
  removeAll(w, removedPlayers(w, chunk))

RECURSIVE removedChunksAll(_, _)
removedChunksAll(w, chunks) ==
  IF chunks = {} THEN w
  ELSE LET c == CHOOSE c \in chunks : TRUE
       IN  removedChunksAll(removedChunksSubcription(w, c), chunks \ {c})

Topics(chunks) == { createChunkTopicMessage(c) : c \in chunks }

\* a tick of the timer under createChunks: the new visible set replaces the
\* old one; while the subsystem listens, each added chunk is subscribed and
\* each removed chunk is unsubscribed and its players removed
createChunks ==
  /\ pc \in {"awaitChunks", "running", "disposed"}
  /\ LET newVisibleChunks == getChunksInArea(currentArea(noaPosition), RELAY_CHUNK_SIZE)
         added   == newVisibleChunks \ visibleChunks
         removed == visibleChunks \ newVisibleChunks
         w       == removedChunksAll(World, removed)
     IN  /\ visibleChunks' = newVisibleChunks
         /\ IF pc = "running"
              THEN /\ subscribed' = (subscribed \cup Topics(added)) \ Topics(removed)
                   /\ issued' = issued \cup (IF added = {} THEN {} ELSE {"subscribe"})
                                       \cup (IF removed = {} THEN {} ELSE {"unsubscribe"})
                   /\ PlayerPosition' = w.PlayerPosition
                   /\ PlayerDirection' = w.PlayerDirection
                   /\ PlayerRelayerChunkPosition' = w.PlayerRelayerChunkPosition
                   /\ PlayerLastMessage' = w.PlayerLastMessage
              ELSE UNCHANGED << subscribed, issued, components >>
         /\ lastEvent' = Event("areaTick", "", << >>, removed,
                                 IF pc = "running"
                                   THEN DOMAIN PlayerLastMessage \ DOMAIN w.PlayerLastMessage
                                   ELSE {})
  /\ pc' = IF pc = "awaitChunks" THEN "awaitArea" ELSE pc
  /\ UNCHANGED << relay, camera, warned, noaPosition, currentChunkComputed, now, sweepDue >>

\* the first value of the initialArea stream resolves the await; the rest of
\* createRelaySystem runs: initial subscription, listeners, publisher,
\* receiver, cleanup timer, disposers
InitialSubscription ==
  /\ pc = "awaitArea"
  /\ LET initialArea == currentArea(noaPosition)
     IN  subscribed' = subscribed \cup Topics(getChunksInArea(initialArea, RELAY_CHUNK_SIZE))
  /\ issued' = issued \cup {"subscribe"}
  /\ sweepDue' = now + UNRESPONSIVE_PLAYER_CLEANUP
  /\ pc' = "running"
  /\ lastEvent' = Event("initialArea", "", << >>, {}, {})
  /\ UNCHANGED << relay, camera, warned, noaPosition, currentChunkComputed, visibleChunks,
                  components, now >>

\* a tick of the publisher's timer: the position is read now, the chunk is
\* the value currentChunkComputed holds
relaySubscription ==
  /\ pc = "running"
  /\ LET position == noaPosition
         chunk    == currentChunkComputed[1]
     IN  lastEvent' = Event("relayTick", createChunkTopicMessage(chunk),
                            encodeMessage(position, camera), {}, {})
  /\ issued' = issued \cup {"push"}
  /\ UNCHANGED << relay, camera, pc, warned, noaPosition, currentChunkComputed, visibleChunks,
                  subscribed, components, now, sweepDue >>

isSelfNever(address) == FALSE

\* address === connectedAddress.get()
isSelf(address) == address = LocalAddress

isVisibleAlways(chunks, playerChunk) == TRUE

\* visibleChunks.current.has(playerChunk) && visibleChunks.current.get(playerChunk)
isVisible(chunks, playerChunk) == playerChunk \in chunks

\* the receiver subscribed before the await of the initial area
receiverSubscribedEarly(p) == p \in {"awaitChunk", "awaitChunks", "awaitArea", "running"}

\* defineRxSystem(world, relay.event$, ...) runs after the await of the
\* initial area and its subscription is released by the world's disposers
receiverSubscribed(p) == p = "running"

upsertCreateOnly(w, address, m, time) ==
  IF address \in DOMAIN w.PlayerPosition THEN w
  ELSE [w EXCEPT !.PlayerPosition = setComponent(@, address, m.position),
                 !.PlayerDirection = setComponent(@, address, m.direction),
                 !.PlayerLastMessage = setComponent(@, address, time)]

\* the three setComponent calls of the receiver on the entity of the sender
upsert(w, address, m, time) ==
  [w EXCEPT !.PlayerPosition = setComponent(@, address, m.position),
            !.PlayerDirection = setComponent(@, address, m.direction),
            !.PlayerLastMessage = setComponent(@, address, time)]

\* the receiver of relay.event$
Receive(address, data) ==
  /\ receiverSubscribed(pc)
  /\ LET m == decodeMessage(data)
         x == m.position[1]
         z == m.position[3]
         playerChunk == pixelToChunkCoord([x |-> x, y |-> z], RELAY_CHUNK_SIZE)
     IN  IF isSelf(address) \/ ~isVisible(visibleChunks, playerChunk)
           THEN UNCHANGED components
           ELSE LET w == upsert(World, address, m, now)
                IN  /\ PlayerPosition' = w.PlayerPosition
                    /\ PlayerDirection' = w.PlayerDirection
                    /\ PlayerLastMessage' = w.PlayerLastMessage
                    /\ PlayerRelayerChunkPosition' = w.PlayerRelayerChunkPosition
  /\ lastEvent' = Event("message", address, data, {}, {})
  /\ UNCHANGED << relay, camera, pc, warned, noaPosition, currentChunkComputed, visibleChunks,
                  subscribed, issued, now, sweepDue >>

unresponsiveAll(w, timeOut) == DOMAIN w.PlayerLastMessage

unresponsiveAtTimeout(w, timeOut) ==
  { player \in DOMAIN w.PlayerLastMessage : w.PlayerLastMessage[player] <= timeOut }

\* the players with lastMessage < timeOut
unresponsive(w, timeOut) ==
  { player \in DOMAIN w.PlayerLastMessage : w.PlayerLastMessage[player] < timeOut }

\* the cleanup timer
Sweep ==
  /\ pc = "running"
  /\ now >= sweepDue
  /\ LET timeOut == now - TIMEOUT
         w == removeAll(World, unresponsive(World, timeOut))
     IN  /\ lastEvent' = Event("sweep", "", << >>, {},
                                DOMAIN PlayerLastMessage \ DOMAIN w.PlayerLastMessage)
         /\ PlayerPosition' = w.PlayerPosition
         /\ PlayerDirection' = w.PlayerDirection
         /\ PlayerRelayerChunkPosition' = w.PlayerRelayerChunkPosition
         /\ PlayerLastMessage' = w.PlayerLastMessage
  /\ sweepDue' = sweepDue + UNRESPONSIVE_PLAYER_CLEANUP
  /\ UNCHANGED << relay, camera, pc, warned, noaPosition, currentChunkComputed, visibleChunks,
                  subscribed, issued, now >>

\* world.dispose(): the registered disposers run
Dispose ==
  /\ pc = "running"
  /\ pc' = "disposed"
  /\ lastEvent' = Event("dispose", "", << >>, {}, {})
  /\ UNCHANGED << relay, camera, warned, noaPosition, currentChunkComputed, visibleChunks,
                  subscribed, issued, components, now, sweepDue >>

Next ==
  \/ \E p \in NoaPositions : Move(p)
  \/ Advance
  \/ createRelaySystem
  \/ ChunkTick
  \/ createChunks
  \/ InitialSubscription
  \/ relaySubscription
  \/ \E address \in Addresses, data \in Payloads : Receive(address, data)
  \/ Sweep
  \/ Dispose

Spec == Init /\ [][Next]_vars

(* ------------------------------ properties ----------------------------- *)
\* the chunk a position (x, y, z) lies in
chunkOf(position) ==
  pixelToChunkCoord([x |-> position[1], y |-> position[3]], RELAY_CHUNK_SIZE)

\* the chunk of the position a payload decodes to
chunkOfData(data) == chunkOf(decodeMessage(data).position)

Tracked == DOMAIN PlayerPosition \cup DOMAIN PlayerDirection \cup DOMAIN PlayerLastMessage

\* C1: a relay message that decodes to a position in a chunk outside the
\* visible set at the moment it is processed creates no player and changes
\* no component of an existing one.
C1_VisibilityGatedDelivery ==
  [][ (lastEvent'.type = "message" /\ chunkOfData(lastEvent'.data) \notin visibleChunks)
        => UNCHANGED components ]_vars

\* a 28-byte message of a remote sender for a chunk that is not visible was
\* processed while that sender is tracked at another position
C1_Witness ==
  /\ lastEvent.type = "message"
  /\ lastEvent.address # LocalAddress
  /\ Len(lastEvent.data) = 28
  /\ chunkOfData(lastEvent.data) \notin visibleChunks
  /\ lastEvent.address \in DOMAIN PlayerPosition
  /\ PlayerPosition[lastEvent.address] # decodeMessage(lastEvent.data).position

\* C2: a relay message sent by the local address changes no component,
\* whatever its payload and the visible set; no player is ever keyed by the
\* local address.
C2_SelfMessageSuppression ==
  /\ [](LocalAddress \notin Tracked \cup DOMAIN PlayerRelayerChunkPosition)
  /\ [][ (lastEvent'.type = "message" /\ lastEvent'.address = LocalAddress)
           => UNCHANGED components ]_vars

\* a well-formed message of the local address for a visible chunk was processed
C2_Witness ==
  /\ lastEvent.type = "message"
  /\ lastEvent.address = LocalAddress
  /\ Len(lastEvent.data) = 28
  /\ chunkOfData(lastEvent.data) \in visibleChunks
  /\ LocalAddress \notin Tracked

\* C3: once an area change has been processed by the running subsystem,
\* every tracked player's position lies in a visible chunk.
C3_ChunkExitEviction ==
  (pc = "running" /\ lastEvent.type = "areaTick")
    => \A a \in DOMAIN PlayerPosition : chunkOf(PlayerPosition[a]) \in visibleChunks

\* C4: processing an area change that removes chunks leaves the components
\* of every player whose position lies in a chunk that is still visible
\* unchanged.
C4_ChunkExitFrame ==
  [][ \A a \in Tracked :
        ( /\ lastEvent'.type = "areaTick"
          /\ lastEvent'.removed # {}
          /\ a \in DOMAIN PlayerPosition
          /\ chunkOf(PlayerPosition[a]) \in visibleChunks' )
        => /\ a \in DOMAIN PlayerPosition' /\ PlayerPosition'[a] = PlayerPosition[a]
           /\ a \in DOMAIN PlayerDirection' /\ PlayerDirection'[a] = PlayerDirection[a]
           /\ a \in DOMAIN PlayerLastMessage'
           /\ PlayerLastMessage'[a] = PlayerLastMessage[a] ]_vars

\* the running subsystem processed the removal of chunks while a player was
\* tracked in a chunk that stays visible
C4_Witness ==
  /\ pc = "running"
  /\ lastEvent.type = "areaTick"
  /\ lastEvent.removed # {}
  /\ \E a \in DOMAIN PlayerPosition :
       /\ chunkOf(PlayerPosition[a]) \in visibleChunks
       /\ chunkOf(PlayerPosition[a]) \notin lastEvent.removed
       /\ a \in DOMAIN PlayerDirection \cap DOMAIN PlayerLastMessage

\* C5: a sweep runs when its timer is due and re-arms it 2000 ms later; it
\* removes every player whose last message is more than TIMEOUT old; apart
\* from chunk exits, a player disappears only in a sweep and only if its last
\* message is more than TIMEOUT old.
C5_StalenessEviction ==
  [][ /\ lastEvent'.type = "sweep"
          => /\ now >= sweepDue
             /\ sweepDue' = sweepDue + UNRESPONSIVE_PLAYER_CLEANUP
             /\ \A p \in DOMAIN PlayerLastMessage :
                  now - PlayerLastMessage[p] > TIMEOUT
                    => p \notin DOMAIN PlayerLastMessage' \cup DOMAIN PlayerPosition'
                                  \cup DOMAIN PlayerDirection'
      /\ \A p \in DOMAIN PlayerLastMessage :
           (p \notin DOMAIN PlayerLastMessage' /\ lastEvent'.type # "areaTick")
             => (lastEvent'.type = "sweep" /\ now - PlayerLastMessage[p] > TIMEOUT) ]_vars

\* a sweep has removed a player
C5_Witness ==
  /\ lastEvent.type = "sweep"
  /\ lastEvent.evicted # {}
  /\ lastEvent.evicted \cap Tracked = {}

\* C6: every push goes to the topic of the chunk of the position encoded in
\* the pushed message.
C6_PublishOnCurrentChunk ==
  lastEvent.type = "relayTick"
    => lastEvent.address = createChunkTopicMessage(chunkOfData(lastEvent.data))

\* C7: while the subsystem runs, the subscribed topics are exactly the topics
\* of the visible chunks.
C7_SubscriptionLockstep ==
  pc = "running" => subscribed = Topics(visibleChunks)

\* C8: a relay message whose payload is not 28 bytes long changes no
\* component.
C8_MalformedDropped ==
  [][ (lastEvent'.type = "message" /\ Len(lastEvent'.data) # 28)
        => UNCHANGED components ]_vars

\* C9: without a relay, createRelaySystem warns once and returns; afterwards
\* no relay call has been made, no player exists, and nothing but the
\* environment (player movement, time) ever changes.
C9_TransportUnavailable ==
  /\ [](~relay => /\ pc \in {"init", "inert"}
                  /\ warned = (IF pc = "inert" THEN 1 ELSE 0)
                  /\ issued = {}
                  /\ subscribed = {}
                  /\ Tracked = {})
  /\ [][ pc = "inert"
           => /\ lastEvent'.type \in {"move", "advance"}
              /\ UNCHANGED << relay, camera, pc, warned, currentChunkComputed, visibleChunks,
                              subscribed, issued, components, sweepDue >> ]_vars

\* without a relay the player has moved and time has passed after the return
C9_Witness ==
  /\ ~relay
  /\ pc = "inert"
  /\ warned = 1
  /\ now > 0
  /\ lastEvent.type = "move"

\* C10: after the disposers have run no topic is subscribed.
C10_TeardownUnsubscribes ==
  pc = "disposed" => subscribed = {}

\* C11: once the disposers have run, no timer of the subsystem fires and no
\* relay event is processed: only the player's movement and the clock change.
C11_TeardownCancelsTimers ==
  [][ pc = "disposed"
        => /\ lastEvent'.type \in {"move", "advance"}
           /\ UNCHANGED << pc, currentChunkComputed, visibleChunks, subscribed, issued,
                           components, sweepDue >> ]_vars

(* ------------------- the codec on every JavaScript number -------------- *)
\* The publisher's pose is any JavaScript number.  A number is NaN, an
\* infinity, or finite; a finite one is held in two 16-bit limbs and a digit,
\*     100 * value = hi * 65536 + lo + frac / 10,  0 <= lo < 65536, 0 <= frac < 10,
\* so that values whose fixed-point form exceeds 32 bits can be written.
Finite(hi, lo, frac) == [kind |-> "finite", hi |-> hi, lo |-> lo, frac |-> frac]

NaN == [kind |-> "NaN", hi |-> 0, lo |-> 0, frac |-> 0]

Infinity == [kind |-> "Infinity", hi |-> 0, lo |-> 0, frac |-> 0]

\* a number counted in 1/Unit, as a JavaScript number
FromUnits(n) ==
  Finite((n \div (Unit \div Pow10(PRECISION))) \div 65536,
         (n \div (Unit \div Pow10(PRECISION))) % 65536,
         n % (Unit \div Pow10(PRECISION)))

\* Math.round instead of Math.floor
toFixedPointRound(n) ==
  IF n.kind # "finite" THEN n
  ELSE IF n.frac < 5 THEN Finite(n.hi, n.lo, 0)
  ELSE IF n.lo = 65535 THEN Finite(n.hi + 1, 0, 0)
  ELSE Finite(n.hi, n.lo + 1, 0)

\* Math.floor(n * Math.pow(10, PRECISION)): NaN and the infinities stay
toFixedPointWide(n) ==
  IF n.kind # "finite" THEN n ELSE Finite(n.hi, n.lo, 0)

\* the store of a number into an Int32Array element: NaN and the infinities
\* become 0, an integer is taken modulo 2^32 into the signed range
ToInt32(n) ==
  IF n.kind # "finite" THEN 0
  ELSE (((n.hi + 32768) % 65536) - 32768) * 65536 + n.lo

\* n / Math.pow(10, PRECISION) of a 32-bit integer
fromFixedPointWide(n) == Finite(n \div 65536, n % 65536, 0)

encodeMessageWide(position, direction) ==
  LET scalars == position \o direction
      transformedData == [k \in 1..Len(scalars) |-> toFixedPointWide(scalars[k])]
  IN  Int32ArrayToUint8Array([k \in 1..Len(scalars) |-> ToInt32(transformedData[k])])

decodeMessageWide(data) ==
  LET parts == splitUint8Arrays(data, <<12, 16>>)
      positionInts  == Uint8ArrayToInt32Array(parts[1])
      directionInts == Uint8ArrayToInt32Array(parts[2])
  IN  [position  |-> [k \in 1..Len(positionInts) |-> fromFixedPointWide(positionInts[k])],
       direction |-> [k \in 1..Len(directionInts) |-> fromFixedPointWide(directionInts[k])]]

\* scalars of a pose: 1.005, -2.345, the largest and smallest numbers whose
\* fixed-point form fits 32 bits, the first ones beyond, NaN and Infinity
WideScalars ==
  { FromUnits(1005), FromUnits(-2345),
    Finite(32767, 65535, 9), Finite(-32768, 0, 0),
    Finite(32768, 0, 0), Finite(-32769, 65535, 5),
    NaN, Infinity }

WidePositions == { << s, FromUnits(0), t >> : s \in WideScalars,
                                              t \in { FromUnits(0), FromUnits(-2345) } }

WideQuaternions ==
  { << FromUnits(0), FromUnits(0), FromUnits(0), FromUnits(Unit) >>,
    << FromUnits(-707), FromUnits(0), FromUnits(0), FromUnits(707) >>,
    << NaN, NaN, NaN, NaN >> }

\* the subsystem running, started at the origin, with any pose of the player
PoseInit ==
  /\ relay = TRUE
  /\ pc = "running"
  /\ warned = 0
  /\ noaPosition \in WidePositions
  /\ camera \in WideQuaternions
  /\ currentChunkComputed = << currentChunk(<<0, 0, 0>>) >>
  /\ visibleChunks = getChunksInArea(currentArea(<<0, 0, 0>>), RELAY_CHUNK_SIZE)
  /\ subscribed = Topics(visibleChunks)
  /\ issued = {"subscribe"}
  /\ PlayerPosition = NoEntities
  /\ PlayerDirection = NoEntities
  /\ PlayerRelayerChunkPosition = NoEntities
  /\ PlayerLastMessage = NoEntities
  /\ now = 0
  /\ sweepDue = UNRESPONSIVE_PLAYER_CLEANUP
  /\ lastEvent = Event("none", "", << >>, {}, {})

\* the engine moves the local player
PoseMove(p) ==
  /\ p # noaPosition
  /\ noaPosition' = p
  /\ lastEvent' = Event("move", "", << >>, {}, {})
  /\ UNCHANGED << relay, camera, pc, warned, currentChunkComputed, visibleChunks,
                  subscribed, issued, components, now, sweepDue >>

\* the engine turns the camera
PoseLook(q) ==
  /\ q # camera
  /\ camera' = q
  /\ lastEvent' = Event("look", "", << >>, {}, {})
  /\ UNCHANGED << relay, noaPosition, pc, warned, currentChunkComputed, visibleChunks,
                  subscribed, issued, components, now, sweepDue >>

\* a tick of the publisher's timer, for any pose
PosePublish ==
  /\ pc = "running"
  /\ LET position == noaPosition
         chunk    == currentChunkComputed[1]
     IN  lastEvent' = Event("relayTick", createChunkTopicMessage(chunk),
                            encodeMessageWide(position, camera), {}, {})
  /\ issued' = issued \cup {"push"}
  /\ UNCHANGED << relay, camera, pc, warned, noaPosition, currentChunkComputed,
                  visibleChunks, subscribed, components, now, sweepDue >>

PoseNext ==
  \/ \E p \in WidePositions : PoseMove(p)
  \/ \E q \in WideQuaternions : PoseLook(q)
  \/ PosePublish

PoseSpec == PoseInit /\ [][PoseNext]_vars

\* the seven scalars of the pose read by the publisher
PoseScalars == noaPosition \o camera

IsFinite(n) == n.kind = "finite"

\* C12: no message is pushed for a pose with a scalar that is NaN or an
\* infinity.
C12_NonFiniteRejected ==
  lastEvent.type = "relayTick" => \A k \in 1..7 : IsFinite(PoseScalars[k])

\* floor(v * 100) / 100 of a finite number v
FloorCenti(n) == Finite(n.hi, n.lo, 0)

\* floor(v * 100) lies in the signed 32-bit range
InInt32(n) == n.hi \in -32768..32767

\* C13 as stated: for every pose of finite scalars, whatever their size, the
\* pushed message has 28 bytes and decodes, slot by slot, to
\* floor(v * 100) / 100.
C13_RoundTripAllFinite ==
  (lastEvent.type = "relayTick" /\ \A k \in 1..7 : IsFinite(PoseScalars[k]))
    => /\ Len(lastEvent.data) = 28
       /\ LET m == decodeMessageWide(lastEvent.data)
          IN  \A k \in 1..7 : (m.position \o m.direction)[k] = FloorCenti(PoseScalars[k])

\* C13, amended: the pushed message has 28 bytes, and every finite scalar v
\* with floor(v * 100) in the signed 32-bit range decodes, in its slot, to
\* floor(v * 100) / 100.
C13_RoundTripInRange ==
  lastEvent.type = "relayTick"
    => /\ Len(lastEvent.data) = 28
       /\ LET m == decodeMessageWide(lastEvent.data)
          IN  \A k \in 1..7 :
                (IsFinite(PoseScalars[k]) /\ InInt32(PoseScalars[k]))
                  => (m.position \o m.direction)[k] = FloorCenti(PoseScalars[k])

\* a pose was pushed whose x is the largest number that fits, with a digit
\* below the precision, and whose z and quaternion have negative scalars
\* that are not multiples of 0.01
C13_Witness ==
  /\ lastEvent.type = "relayTick"
  /\ noaPosition[1] = Finite(32767, 65535, 9)
  /\ noaPosition[3] = FromUnits(-2345)
  /\ camera[1] = FromUnits(-707)
  /\ decodeMessageWide(lastEvent.data).position[3] = FromUnits(-2350)

(* --------------------- the visible area as the player moves ------------ *)
\* positions of the player: the origin, (200, 0, 0), a chunk corner, just
\* below a chunk border on both axes, and inside a chunk
AreaPositions ==
  { <<0, 0, 0>>, <<200000, 0, 0>>, <<64000, 0, -64000>>, <<-5, 5000, 127995>>,
    <<70005, 0, 0>> }

\* the subsystem running, started with the player at rest at some position
AreaInit ==
  /\ relay = TRUE
  /\ pc = "running"
  /\ warned = 0
  /\ noaPosition \in AreaPositions
  /\ camera = CameraQuaternion
  /\ currentChunkComputed = << currentChunk(noaPosition) >>
  /\ visibleChunks = getChunksInArea(currentArea(noaPosition), RELAY_CHUNK_SIZE)
  /\ subscribed = Topics(getChunksInArea(currentArea(noaPosition), RELAY_CHUNK_SIZE))
  /\ issued = {"subscribe"}
  /\ PlayerPosition = NoEntities
  /\ PlayerDirection = NoEntities
  /\ PlayerRelayerChunkPosition = NoEntities
  /\ PlayerLastMessage = NoEntities
  /\ now = 0
  /\ sweepDue = UNRESPONSIVE_PLAYER_CLEANUP
  /\ lastEvent = Event("none", "", << >>, {}, {})

AreaNext ==
  \/ \E p \in AreaPositions : Move(p)
  \/ ChunkTick
  \/ createChunks

AreaSpec == AreaInit /\ [][AreaNext]_vars

\* the chunks (x, y) with x in xs and y in ys
Block(xs, ys) == { [x |-> cx, y |-> cy] : cx \in xs, cy \in ys }

\* an area given in world units
AreaOf(x, y, width, height) ==
  [x |-> x * Unit, y |-> y * Unit, width |-> width * Unit, height |-> height * Unit]

\* C14 as stated: at (0,0,0) the area is [-64,-64,128,128] and the visible
\* chunks are (-2,-2)..(1,1); the sample at (200,0,0) makes the area
\* [136,-64,128,128], removes the chunks with x = -2, -1 and adds those with
\* x = 2, 3.
C14_ScenarioAsStated ==
  [][ ( /\ visibleChunks = getChunksInArea(currentArea(<<0, 0, 0>>), RELAY_CHUNK_SIZE)
        /\ noaPosition = <<200000, 0, 0>>
        /\ lastEvent'.type = "areaTick" )
      => /\ currentArea(<<0, 0, 0>>) = AreaOf(-64, -64, 128, 128)
         /\ visibleChunks = Block(-2..1, -2..1)
         /\ currentArea(noaPosition) = AreaOf(136, -64, 128, 128)
         /\ lastEvent'.removed = Block(-2..-1, -2..1)
         /\ visibleChunks' \ visibleChunks = Block(2..3, -2..1) ]_vars

\* C14, amended: at (0,0,0) the area is [-64,-64,128,128] and the visible
\* chunks are (-1,-1)..(1,1); the sample at (200,0,0) makes the area
\* [136,-64,128,128], removes the chunks with x = -1, 0, 1 and adds those
\* with x = 2, 3, 4 (y = -1..1), unsubscribing and subscribing their topics.
C14_Scenario ==
  [][ ( /\ visibleChunks = getChunksInArea(currentArea(<<0, 0, 0>>), RELAY_CHUNK_SIZE)
        /\ noaPosition = <<200000, 0, 0>>
        /\ lastEvent'.type = "areaTick" )
      => /\ currentArea(<<0, 0, 0>>) = AreaOf(-64, -64, 128, 128)
         /\ visibleChunks = Block(-1..1, -1..1)
         /\ currentArea(noaPosition) = AreaOf(136, -64, 128, 128)
         /\ lastEvent'.removed = Block(-1..1, -1..1)
         /\ visibleChunks' \ visibleChunks = Block(2..4, -1..1)
         /\ Topics(Block(2..4, -1..1)) \subseteq subscribed'
         /\ Topics(Block(-1..1, -1..1)) \cap subscribed' = {} ]_vars

\* the sample at (200,0,0) was processed with the visible set of the origin
C14_Witness ==
  /\ lastEvent.type = "areaTick"
  /\ noaPosition = <<200000, 0, 0>>
  /\ lastEvent.removed = getChunksInArea(currentArea(<<0, 0, 0>>), RELAY_CHUNK_SIZE)
  /\ visibleChunks = Block(2..4, -1..1)
  /\ subscribed = Topics(visibleChunks)

\* C15: a relay message is evaluated only by the running subsystem, whose
\* visible set is seeded and never empty; the subsystem starts running only
\* in the step that issues the subscribe of every chunk of the initial area,
\* taken once the position samples have arrived.
C15_StartupOrdering ==
  /\ [][ lastEvent'.type = "message"
           => /\ pc = "running"
              /\ visibleChunks # {}
              /\ currentChunkComputed # << >>
              /\ "subscribe" \in issued ]_vars
  /\ [][ (pc' = "running" /\ pc # "running")
           => /\ lastEvent'.type = "initialArea"
              /\ visibleChunks # {}
              /\ Topics(getChunksInArea(currentArea(noaPosition), RELAY_CHUNK_SIZE))
                   \subseteq subscribed' ]_vars
  /\ [](pc = "running" => visibleChunks # {})

\* a message was accepted right after startup, before any time has passed
C15_Witness ==
  /\ lastEvent.type = "message"
  /\ now = 0
  /\ lastEvent.address \in DOMAIN PlayerLastMessage
  /\ sweepDue = UNRESPONSIVE_PLAYER_CLEANUP

(* ------------------- a relay.unsubscribe call that throws -------------- *)
\* A tick of the timer under createChunks in which relay.unsubscribe throws
\* for the removed chunk failing: the topic stays subscribed and the
\* subscriber of removedChunks$ ends at the call, before its players are
\* removed; the error is reported outside the emission, which goes on with
\* the other chunks.
createChunksUnsubscribeThrows(failing) ==
  /\ pc = "running"
  /\ LET newVisibleChunks == getChunksInArea(currentArea(noaPosition), RELAY_CHUNK_SIZE)
         added   == newVisibleChunks \ visibleChunks
         removed == visibleChunks \ newVisibleChunks
         w       == removedChunksAll(World, removed \ {failing})
     IN  /\ failing \in removed
         /\ visibleChunks' = newVisibleChunks
         /\ subscribed' = (subscribed \cup Topics(added)) \ Topics(removed \ {failing})
         /\ issued' = issued \cup (IF added = {} THEN {} ELSE {"subscribe"})
                             \cup {"unsubscribe"}
         /\ PlayerPosition' = w.PlayerPosition
         /\ PlayerDirection' = w.PlayerDirection
         /\ PlayerRelayerChunkPosition' = w.PlayerRelayerChunkPosition
         /\ PlayerLastMessage' = w.PlayerLastMessage
         /\ lastEvent' = Event("areaTick", createChunkTopicMessage(failing), << >>, removed,
                               DOMAIN PlayerLastMessage \ DOMAIN w.PlayerLastMessage)
  /\ UNCHANGED << relay, camera, pc, warned, noaPosition, currentChunkComputed, now, sweepDue >>

FailNext ==
  \/ Next
  \/ \E failing \in visibleChunks : createChunksUnsubscribeThrows(failing)

FailSpec == Init /\ [][FailNext]_vars

\* C16: after an area change in which relay.unsubscribe threw for a chunk,
\* no player is tracked in that chunk, and every other removed chunk is
\* unsubscribed.
C16_FailureIsolation ==
  (lastEvent.type = "areaTick" /\ lastEvent.address # "")
    => /\ \A a \in DOMAIN PlayerPosition :
            createChunkTopicMessage(chunkOf(PlayerPosition[a])) # lastEvent.address
       /\ Topics(lastEvent.removed) \cap subscribed \subseteq {lastEvent.address}

(* ------------------------- player state ------------------------------- *)
\* C17: in every state an address has all of position, direction and last
\* message time or none of them, and whatever a handler evicts is absent from
\* all of them afterwards.
C17_NoPartialPlayerState ==
  /\ [](/\ DOMAIN PlayerPosition = DOMAIN PlayerDirection
        /\ DOMAIN PlayerDirection = DOMAIN PlayerLastMessage)
  /\ [][ \A e \in lastEvent'.evicted :
           e \notin DOMAIN PlayerPosition' \cup DOMAIN PlayerDirection'
                      \cup DOMAIN PlayerLastMessage' ]_vars

\* a player that had all three fields was evicted by a sweep and has none of
\* them left, in any component
C17_Witness ==
  /\ lastEvent.type = "sweep"
  /\ now > TIMEOUT
  /\ \E e \in lastEvent.evicted :
       /\ e \notin DOMAIN PlayerPosition
       /\ e \notin DOMAIN PlayerDirection
       /\ e \notin DOMAIN PlayerLastMessage
       /\ e \notin DOMAIN PlayerRelayerChunkPosition

\* C18: an accepted message (sender not the local address, decoded chunk
\* visible) leaves the sender with the position and direction of that message
\* and the processing time as last message time, whether or not the sender
\* was tracked before, and changes no other player.
C18_UpsertLastWriterWins ==
  [][ (/\ lastEvent'.type = "message"
       /\ lastEvent'.address # LocalAddress
       /\ chunkOfData(lastEvent'.data) \in visibleChunks)
        => LET a == lastEvent'.address
               m == decodeMessage(lastEvent'.data)
           IN  /\ DOMAIN PlayerPosition' = DOMAIN PlayerPosition \cup {a}
               /\ PlayerPosition'[a] = m.position
               /\ PlayerDirection'[a] = m.direction
               /\ PlayerLastMessage'[a] = now
               /\ \A o \in DOMAIN PlayerPosition \ {a} :
                    /\ PlayerPosition'[o] = PlayerPosition[o]
                    /\ PlayerDirection'[o] = PlayerDirection[o]
                    /\ PlayerLastMessage'[o] = PlayerLastMessage[o] ]_vars

\* a well-formed message of a remote sender was accepted after time has
\* passed, and the sender holds exactly its content and the processing time
C18_Witness ==
  /\ lastEvent.type = "message"
  /\ Len(lastEvent.data) = 28
  /\ now >= 2 * Tick
  /\ lastEvent.address \in DOMAIN PlayerLastMessage
  /\ PlayerLastMessage[lastEvent.address] = now
  /\ PlayerPosition[lastEvent.address] = decodeMessage(lastEvent.data).position
  /\ PlayerDirection[lastEvent.address] = decodeMessage(lastEvent.data).direction

\* C20: a sweep leaves every player whose last message is at most TIMEOUT old
\* as it was, a player of age exactly TIMEOUT included, and every player
\* tracked right after a sweep has age at most TIMEOUT.
C20_SweepSparesFresh ==
  [][ lastEvent'.type = "sweep"
        => /\ \A p \in DOMAIN PlayerLastMessage :
                now - PlayerLastMessage[p] <= TIMEOUT
                  => /\ p \in DOMAIN PlayerLastMessage'
                     /\ p \in DOMAIN PlayerPosition' /\ p \in DOMAIN PlayerDirection'
                     /\ PlayerLastMessage'[p] = PlayerLastMessage[p]
                     /\ PlayerPosition'[p] = PlayerPosition[p]
                     /\ PlayerDirection'[p] = PlayerDirection[p]
           /\ \A p \in DOMAIN PlayerLastMessage' :
                now' - PlayerLastMessage'[p] <= TIMEOUT
           /\ \A e \in lastEvent'.evicted : now - PlayerLastMessage[e] > TIMEOUT ]_vars

\* a sweep ran and kept a player whose age is exactly TIMEOUT
C20_Witness ==
  /\ lastEvent.type = "sweep"
  /\ lastEvent.evicted = {}
  /\ \E p \in DOMAIN PlayerLastMessage :
       /\ now - PlayerLastMessage[p] = TIMEOUT
       /\ p \in DOMAIN PlayerPosition \cap DOMAIN PlayerDirection

(* ------------------------- visible area shape ------------------------- *)
\* the chunk indices the positions of AreaPositions can make visible
ChunkRange == -4 .. 6

\* chunk c, the half-open square of side RELAY_CHUNK_SIZE at c, meets the
\* closed square area
Overlaps(c, area) ==
  /\ c.x * RELAY_CHUNK_SIZE * Unit <= area.x + area.width
  /\ (c.x + 1) * RELAY_CHUNK_SIZE * Unit > area.x
  /\ c.y * RELAY_CHUNK_SIZE * Unit <= area.y + area.height
  /\ (c.y + 1) * RELAY_CHUNK_SIZE * Unit > area.y

\* C19: at every tick of the area timer the area is the square of side 128
\* centered on the sampled (x, z), and the visible set becomes exactly the
\* chunks overlapping it, which is the 3x3 block around the chunk of the
\* sample, so that chunk is visible.
C19_VisibleAreaShape ==
  [][ lastEvent'.type = "areaTick"
        => LET s      == noaPosition
               square == [x |-> s[1] - 64 * Unit, y |-> s[3] - 64 * Unit,
                          width |-> 128 * Unit, height |-> 128 * Unit]
               own    == currentChunk(s)
           IN  /\ currentArea(s) = square
               /\ visibleChunks' = { c \in Block(ChunkRange, ChunkRange) : Overlaps(c, square) }
               /\ visibleChunks' = Block((own.x - 1) .. (own.x + 1), (own.y - 1) .. (own.y + 1))
               /\ Cardinality(visibleChunks') = 9
               /\ own \in visibleChunks' ]_vars

\* the area timer ticked with the player on the corner of a chunk, after a
\* move that took chunks out of the visible set
C19_Witness ==
  /\ lastEvent.type = "areaTick"
  /\ lastEvent.removed # {}
  /\ noaPosition = <<64000, 0, -64000>>
  /\ visibleChunks = Block(0 .. 2, -2 .. 0)

====
